---- MODULE Spec2Model ----
(***************************************************************************)
(* A model of the helix-reviews edge worker (src/src/index.js): one        *)
(* invocation of handleRequest, split at its awaits on upstream fetches.   *)
(*                                                                         *)
(* Strings are sequences of atoms.  An atom is either one delimiter        *)
(* character ("/", ".", "-", "?", "=", "&", ";") or a maximal run of       *)
(* characters holding no delimiter ("about", "html", "r1").  split, join,  *)
(* startsWith and endsWith on delimiters then act on atoms exactly as the  *)
(* JavaScript methods act on characters.                                   *)
(***************************************************************************)
EXTENDS Naturals, Sequences, FiniteSets, TLC

(***************************************************************************)
(* String helpers (JavaScript String methods on atom sequences)            *)
(***************************************************************************)

\* String.prototype.startsWith
StartsWith(s, pre) ==
  /\ Len(pre) <= Len(s)
  /\ SubSeq(s, 1, Len(pre)) = pre

\* String.prototype.endsWith
EndsWith(s, suf) ==
  /\ Len(suf) <= Len(s)
  /\ SubSeq(s, Len(s) - Len(suf) + 1, Len(s)) = suf

\* String.prototype.includes for a one-atom needle
Includes(s, atom) == \E i \in 1..Len(s) : s[i] = atom

\* String.prototype.split(sep) as a function of the string: the separators
\* are found left to right and do not overlap; chosen[i] says that one
\* starts at position i
Split(s, sep) ==
  LET split[v \in {s}] ==
        LET n == Len(v)
            k == Len(sep)
            chosen[i \in 1..n] ==
              /\ i + k - 1 <= n
              /\ SubSeq(v, i, i + k - 1) = sep
              /\ \A j \in 1..(k - 1) : i - j >= 1 => ~chosen[i - j]
            starts == {i \in 1..n : chosen[i]}
            m      == Cardinality(starts)
            pos(j) == CHOOSE i \in starts :
                        Cardinality({x \in starts : x < i}) = j - 1
        IN  [j \in 1..(m + 1) |->
               SubSeq(v, IF j = 1 THEN 1 ELSE pos(j - 1) + k,
                         IF j = m + 1 THEN n ELSE pos(j) - 1)]
  IN  split[s]

RECURSIVE Join(_, _)
\* Array.prototype.join(sep)
Join(parts, sep) ==
  IF parts = <<>> THEN <<>>
  ELSE IF Len(parts) = 1 THEN parts[1]
  ELSE parts[1] \o sep \o Join(Tail(parts), sep)

\* Array.prototype.slice(n)
Slice(parts, n) == SubSeq(parts, n + 1, Len(parts))

\* array destructuring / indexing past the end yields undefined, which a
\* template string renders as the word "undefined"
At(parts, i) == IF i <= Len(parts) THEN parts[i] ELSE <<"undefined">>

\* the elements of a sequence
Range(seq) == {seq[i] : i \in 1..Len(seq)}

(***************************************************************************)
(* Program constants                                                       *)
(***************************************************************************)

AEM_DOMAIN == <<"aem">>

DEFAULT_HOSTNAME ==
  <<"default", "-", "-", "main", "-", "-", "aem", "-", "boilerplate",
    "-", "-", "adobe", ".", "aem", ".", "reviews">>

\* Headers.get of an absent header is null; an absent header is the empty
\* value here (no header of the model is ever set to the empty string)
NoHeader == <<>>

RequestHeaderNames ==
  {"authorization", "cookie", "host", "if-none-match", "if-modified-since",
   "range", "accept-encoding", "x-push-invalidation", "x-forwarded-host"}

ResponseHeaderNames == {"location", "content-type", "x-origin-url", "x-robots-tag"}

NoResponseHeaders == [n \in ResponseHeaderNames |-> NoHeader]

TextPlain == <<"text/plain;charset=UTF-8">>

\* new Response(text, {status, headers: {'content-type': ...}})
TextResponse(status, text, contentType) ==
  [status  |-> status,
   body    |-> [kind |-> "text", text |-> text],
   headers |-> [NoResponseHeaders EXCEPT !["content-type"] = contentType]]

\* URL.prototype.toString of an https URL
UrlToString(url) == <<"https://">> \o url.hostname \o url.pathname \o url.search

(***************************************************************************)
(* Helper functions of index.js                                            *)
(***************************************************************************)

\* one "name=value" pair of a query string or a cookie header
PairName(pair) == Split(pair, <<"=">>)[1]
PairValue(pair) == Join(Slice(Split(pair, <<"=">>), 1), <<"=">>)

RECURSIVE FirstValue(_, _)
\* the value of the first pair called name, or the empty value when none is
FirstValue(pairs, name) ==
  IF pairs = <<>> THEN <<>>
  ELSE IF PairName(Head(pairs)) = name THEN PairValue(Head(pairs))
  ELSE FirstValue(Tail(pairs), name)

\* new URLSearchParams(search).get(name); null and '' are both falsy and
\* both the empty value here
SearchParamsGet(search, name) ==
  LET query == IF StartsWith(search, <<"?">>) THEN Tail(search) ELSE search
  IN  FirstValue(Split(query, <<"&">>), name)

\* getHostname preferring the query parameter to a reviews hostname
getHostname_paramFirst(url) ==
  LET param == SearchParamsGet(url.search, <<"hostname">>)
  IN  IF param # <<>> THEN param
      ELSE IF \/ EndsWith(url.hostname, <<".", "hlx", ".", "reviews">>)
              \/ EndsWith(url.hostname, <<".", "aem", ".", "reviews">>)
           THEN url.hostname
           ELSE DEFAULT_HOSTNAME

getHostname(url) ==
  LET isReviewsDomain ==
        \/ EndsWith(url.hostname, <<".", "hlx", ".", "reviews">>)
        \/ EndsWith(url.hostname, <<".", "aem", ".", "reviews">>)
      param == SearchParamsGet(url.search, <<"hostname">>)
  IN  IF isReviewsDomain THEN url.hostname
      ELSE IF param # <<>> THEN param ELSE DEFAULT_HOSTNAME

\* extractReviewInfo splitting the label on '-' instead of '--'
extractReviewInfo_singleDash(hostname) ==
  LET origin == Split(hostname, <<".">>)[1]
      parts  == Split(origin, <<"-">>)
  IN  [reviewId |-> At(parts, 1), ref |-> At(parts, 2),
       repo |-> At(parts, 3), owner |-> At(parts, 4)]

extractReviewInfo(hostname) ==
  LET origin == Split(hostname, <<".">>)[1]
      parts  == Split(origin, <<"-", "-">>)
  IN  [reviewId |-> At(parts, 1), ref |-> At(parts, 2),
       repo |-> At(parts, 3), owner |-> At(parts, 4)]

getBaseHostname(reviewInfo) ==
  reviewInfo.ref \o <<"-", "-">> \o reviewInfo.repo \o <<"-", "-">>
    \o reviewInfo.owner \o <<".">> \o AEM_DOMAIN

\* createSnapshotRedirect slicing one segment too few
createSnapshotRedirect_slice2(pathname) ==
  LET location == <<"/">> \o Join(Slice(Split(pathname, <<"/">>), 2), <<"/">>)
  IN  [status  |-> 302,
       body    |-> [kind |-> "text", text |-> <<"Redirect">>],
       headers |-> [NoResponseHeaders EXCEPT !["location"] = location,
                                             !["content-type"] = TextPlain]]

createSnapshotRedirect(pathname) ==
  LET location == <<"/">> \o Join(Slice(Split(pathname, <<"/">>), 3), <<"/">>)
  IN  [status  |-> 302,
       body    |-> [kind |-> "text", text |-> <<"Redirect">>],
       headers |-> [NoResponseHeaders EXCEPT !["location"] = location,
                                             !["content-type"] = TextPlain]]

\* generateRobotsTxt naming the default hostname's sitemap
generateRobotsTxt_default(hostname) ==
  [status  |-> 200,
   body    |-> [kind |-> "text",
                text |-> <<"User-agent: *\nAllow: /\n\nSitemap: ", "https://">>
                           \o DEFAULT_HOSTNAME \o <<"/", "sitemap", ".", "xml">>],
   headers |-> [NoResponseHeaders EXCEPT !["content-type"] = TextPlain]]

generateRobotsTxt(hostname) ==
  [status  |-> 200,
   body    |-> [kind |-> "text",
                text |-> <<"User-agent: *\nAllow: /\n\nSitemap: ", "https://">>
                           \o hostname \o <<"/", "sitemap", ".", "xml">>],
   headers |-> [NoResponseHeaders EXCEPT !["content-type"] = TextPlain]]

\* env[`${owner}-org-token`]
OrgTokenKey(reviewInfo) == reviewInfo.owner \o <<"-", "org", "-", "token">>

\* whether env holds a (truthy) value under key
EnvHas(e, key) == \E kv \in e : kv[1] = key

\* `${env[key]}`: the token, or the word "undefined" when env has no such key
EnvString(e, key) ==
  IF EnvHas(e, key) THEN (CHOOSE kv \in e : kv[1] = key)[2] ELSE <<"undefined">>

\* the lowercase hex SHA-256 digest of message (crypto.subtle.digest), as a
\* table over the passwords of the model ("p1", "p2", and the empty message)
Sha256Hex(message) ==
  CASE message = "p1" -> <<"f64551fcd6f07823cb87971cfb91446425da18286b3ab1ef935e0cbd7a69f68a">>
    [] message = "p2" -> <<"3946ca64ff78d93ca61090a437cbb6b3d2ca0d488f5f9ccf3059608368b27693">>
    [] OTHER -> <<"e3b0c44298fc1c149afbf4c8996fb92427ae41e4649b934ca495991b7852b855">>

\* parse(cookieHeader).reviewPassword of the cookie package: pairs are
\* separated by ";", the first pair of a name wins, undefined is the empty value
CookieGet(cookieHeader, name) == FirstValue(Split(cookieHeader, <<";">>), name)

\* checkAuthentication without the cookie check
checkAuthentication_noCookie(metadata, request, reviewInfo, e) ==
  IF metadata.reviewPassword = "" THEN TRUE
  ELSE request.headers["authorization"]
         = <<"token", " ">> \o EnvString(e, OrgTokenKey(reviewInfo))

checkAuthentication(metadata, request, reviewInfo, e) ==
  IF metadata.reviewPassword = "" THEN TRUE
  ELSE LET authHeader == request.headers["authorization"]
           orgToken   == EnvString(e, OrgTokenKey(reviewInfo))
       IN  IF authHeader = <<"token", " ">> \o orgToken THEN TRUE
           ELSE CookieGet(request.headers["cookie"], <<"reviewPassword">>)
                  = Sha256Hex(metadata.reviewPassword)

\* Dedup keeping the duplicates
Dedup_keepAll(seq, seen) == seq

RECURSIVE Dedup(_, _)
\* [...new Set(seq)]: first occurrences, in order
Dedup(seq, seen) ==
  IF seq = <<>> THEN <<>>
  ELSE IF Head(seq) \in seen THEN Dedup(Tail(seq), seen)
  ELSE <<Head(seq)>> \o Dedup(Tail(seq), seen \cup {Head(seq)})

\* whether new URL(loc) accepts loc: an absolute https URL with a host
UrlValid(loc) ==
  /\ StartsWith(loc, <<"https://">>)
  /\ Len(loc) >= 2
  /\ loc[2] # "/"

\* new URL(loc).pathname: from the first "/" after the host, "/" when none
UrlPathname(loc) ==
  LET rest == Tail(loc)
      segs == Split(rest, <<"/">>)
  IN  IF Len(segs) = 1 THEN <<"/">>
      ELSE <<"/">> \o Join(Tail(segs), <<"/">>)

\* the headers of the origin sitemap fetch (lines 111-112)
sitemapRequestHeaders(incomingHeaders) ==
  [incomingHeaders EXCEPT !["accept-encoding"] = <<"identity">>]

\* line 114
sitemapUrl(info) ==
  <<"https://">> \o getBaseHostname(info) \o <<".", "page", "/", "sitemap", ".", "xml">>

\* lines 109-123: the paths taken from the origin sitemap.  origin.ok is
\* whether fetch and text() resolved; origin.locs are the <loc> values.  A
\* loc that new URL rejects throws before anything is pushed.
indexedPages(origin) ==
  IF ~origin.ok THEN <<>>
  ELSE IF \E i \in 1..Len(origin.locs) : ~UrlValid(origin.locs[i]) THEN <<>>
  ELSE [i \in 1..Len(origin.locs) |-> UrlPathname(origin.locs[i])]

\* lines 125-136
generateSitemap(hostname, pages, origin) ==
  LET allPages == Dedup(pages \o indexedPages(origin), {})
      urls     == [i \in 1..Len(allPages) |-> <<"https://">> \o hostname \o allPages[i]]
  IN  [status  |-> 200,
       body    |-> [kind |-> "sitemap", urls |-> urls],
       headers |-> [NoResponseHeaders EXCEPT
                      !["content-type"] = <<"text/xml;charset=UTF-8">>]]

(***************************************************************************)
(* Inputs: the requests, the configuration and the upstream answers        *)
(***************************************************************************)

\* the longest resource list of a manifest
MaxResources == 2
\* the most <loc> entries of an origin sitemap
MaxLocs == 2

SeqsUpTo(S, n) == UNION {[1..k -> S] : k \in 0..n}

Ids    == {<<"r1">>, <<"r2">>}
Refs   == {<<"main">>}
Repos  == {<<"my", "-", "repo">>}
Owners == {<<"own">>, <<"org2">>}
Labels == {<<"aem">>, <<"hlx">>, <<"foo">>}

\* the hostname {id}--{ref}--{repo}--{owner}.{label}.reviews
ReviewHost(id, ref, repo, owner, label) ==
  id \o <<"-", "-">> \o ref \o <<"-", "-">> \o repo \o <<"-", "-">> \o owner
     \o <<".">> \o label \o <<".", "reviews">>

ParamHost == ReviewHost(<<"r2">>, <<"main">>, <<"my", "-", "repo">>, <<"own">>, <<"aem">>)

\* the hostnames of inbound URLs: review r1 of every owner under every label
\* (those under .foo.reviews are not on a reviews domain), and review r2
UrlHosts ==
  {ReviewHost(<<"r1">>, ref, repo, owner, label) :
     ref \in Refs, repo \in Repos, owner \in Owners, label \in Labels}
  \cup {ParamHost}

Searches ==
  {<<>>, <<"?", "hostname", "=">>, <<"?", "hostname", "=">> \o ParamHost}

ManifestJson == <<"/", ".", "manifest", ".", "json">>

Pathnames ==
  {<<"/", "about">>,
   <<"/", "about", ".", "plain", ".", "html">>,
   <<"/", "styles", ".", "css">>,
   <<"/", "robots", ".", "txt">>,
   <<"/", "sitemap", ".", "xml">>,
   <<"/", "sitemap", "-", "origin", ".", "xml">>,
   ManifestJson,
   <<"/", ".", "snapshots", "/", "r1">> \o ManifestJson,
   <<"/", ".", "snapshots", "/", "r1", "/", "page", ".", "html">>,
   <<"/", ".", "snapshots", "/", "r1">>,
   <<"/", ".", "snapshots", "/", "x", "/", "/", "host", "/">>}

OrgToken == <<"tok1">>

\* the worker's configuration: a token for the organisation "own" only
Envs == {{<< <<"own", "-", "org", "-", "token">>, OrgToken >>}}

AuthorizationHeaders ==
  {NoHeader, <<"token", " ">> \o OrgToken, <<"token", " ", "undefined">>}

CookieHeaders ==
  {NoHeader,
   <<"reviewPassword", "=">> \o Sha256Hex("p1"),
   <<"reviewPassword", "=">> \o Sha256Hex("p2")}

\* the other inbound headers, when present
ExtraHeaders ==
  [n \in RequestHeaderNames |->
     CASE n = "if-none-match"       -> <<"etag1">>
       [] n = "if-modified-since"   -> <<"date1">>
       [] n = "range"               -> <<"bytes=0-9">>
       [] n = "accept-encoding"     -> <<"gzip">>
       [] n = "x-push-invalidation" -> <<"enabled">>
       [] OTHER                     -> NoHeader]

\* the inbound headers besides host: none at all, or the other headers with
\* any authorization and any cookie
RequestHeaders ==
  {[n \in RequestHeaderNames |-> NoHeader]} \cup
  {[ExtraHeaders EXCEPT !["authorization"] = a, !["cookie"] = c] :
     a \in AuthorizationHeaders, c \in CookieHeaders}

Requests ==
  {[url     |-> [hostname |-> h, pathname |-> p, search |-> q],
    headers |-> [x EXCEPT !["host"] = h]] :
     h \in UrlHosts, p \in Pathnames, q \in Searches, x \in RequestHeaders}

ResourcePaths == {<<"/", "about">>, <<"/", "metadata", ".", "json">>}

NotJson == [json |-> FALSE]

\* what manifestResponse.json() can yield
ManifestBodies ==
  {NotJson} \cup
  {[json |-> TRUE, metadata |-> [reviewPassword |-> pw], resources |-> r] :
     pw \in {"", "p1"}, r \in SeqsUpTo(ResourcePaths, MaxResources)}

ManifestStatuses == {200, 404, 500}

ContentStatuses == {200, 404, 401}

Locs ==
  {<<"https://", "example", ".", "com", "/", "about">>,
   <<"https://", "example", ".", "com">>,
   <<"/", "relative">>}

\* what the origin sitemap fetch can yield
SitemapOrigins ==
  {[ok |-> FALSE, locs |-> <<>>]} \cup
  {[ok |-> TRUE, locs |-> l] : l \in SeqsUpTo(Locs, MaxLocs)}

(***************************************************************************)
(* rewriteMetaTags (lines 146-177)                                         *)
(***************************************************************************)

\* the text <meta name="{name}"
MetaOpen(name) == <<"<meta name=\"">> \o name \o <<"\"">>

createMetaTag(name, value) ==
  MetaOpen(name) \o <<" content=\"">> \o value \o <<"\">", "\n">>

RECURSIVE IndexOf(_, _, _)
\* String.prototype.indexOf from position i (1-based); 0 when absent
IndexOf(s, needle, i) ==
  IF i + Len(needle) - 1 > Len(s) THEN 0
  ELSE IF SubSeq(s, i, i + Len(needle) - 1) = needle THEN i
  ELSE IndexOf(s, needle, i + 1)

\* String.prototype.replace(needle, replacement) with a string needle: the
\* first occurrence only
ReplaceFirst(s, needle, replacement) ==
  LET i == IndexOf(s, needle, 1)
  IN  IF i = 0 THEN s
      ELSE SubSeq(s, 1, i - 1) \o replacement
             \o SubSeq(s, i + Len(needle), Len(s))

\* String.prototype.toLowerCase on the keys of the model
ToLowerCase(key) ==
  CASE key = <<"URL">>   -> <<"url">>
    [] key = <<"Title">> -> <<"title">>
    [] OTHER             -> key

RECURSIVE MatchPieces(_, _)
\* the literal pieces occur in s in this order, without overlap
MatchPieces(pieces, s) ==
  IF pieces = <<>> THEN TRUE
  ELSE LET i == IndexOf(s, Head(pieces), 1)
       IN  /\ i # 0
           /\ MatchPieces(Tail(pieces), SubSeq(s, i + Len(Head(pieces)), Len(s)))

\* new RegExp(pattern.replaceAll('**', '.*')).test(pathname), for patterns
\* whose other characters are literal: an unanchored match
RegexTest(pattern, pathname) == MatchPieces(Split(pattern, <<"**">>), pathname)

RECURSIVE ApplyEntries_appendOnly(_, _)
\* ApplyEntries appending the new tags without renaming the old ones
ApplyEntries_appendOnly(entries, headContent) ==
  IF entries = <<>> THEN headContent
  ELSE LET name  == ToLowerCase(Head(entries)[1])
           value == Head(entries)[2]
           next  == IF name # <<"url">> /\ value # <<>>
                    THEN headContent \o createMetaTag(name, value)
                    ELSE headContent
       IN  ApplyEntries_appendOnly(Tail(entries), next)

RECURSIVE ApplyEntries(_, _)
\* lines 165-172: Object.entries(rule).forEach
ApplyEntries(entries, headContent) ==
  IF entries = <<>> THEN headContent
  ELSE LET name  == ToLowerCase(Head(entries)[1])
           value == Head(entries)[2]
           next  == IF name # <<"url">> /\ value # <<>>
                    THEN ReplaceFirst(headContent, MetaOpen(name),
                                      MetaOpen(name \o <<"-", "rewritten">>))
                           \o createMetaTag(name, value)
                    ELSE headContent
       IN  ApplyEntries(Tail(entries), next)

\* Object.entries(rule): the URL entry, then the fields in order
Entries(rule) == << <<<<"URL">>, rule.URL>> >> \o rule.fields

RECURSIVE ApplyRules(_, _, _)
\* lines 160-174: rules.forEach
ApplyRules(rules, headContent, pathname) ==
  IF rules = <<>> THEN headContent
  ELSE ApplyRules(Tail(rules),
                  IF RegexTest(Head(rules).URL, pathname)
                  THEN ApplyEntries(Entries(Head(rules)), headContent)
                  ELSE headContent,
                  pathname)

\* lines 156-176: the body returned for a status-200 response whose text is
\* html, under the rules of metadata.json
rewriteMetaTags(html, rules, pathname) ==
  LET parts       == Split(html, <<"</head>">>)
      headContent == ApplyRules(rules, parts[1], pathname)
  IN  headContent \o <<"</head>">> \o At(parts, 2)

\* metadataUrl asking for the manifest a second time
metadataUrl_manifestAgain(info) ==
  <<"https://">> \o getBaseHostname(info)
     \o <<".", "page", "/", ".", "snapshots", "/">> \o info.reviewId
     \o <<"/", ".", "manifest", ".", "json">>

\* line 152
metadataUrl(info) ==
  <<"https://">> \o getBaseHostname(info)
     \o <<".", "page", "/", ".", "snapshots", "/">> \o info.reviewId
     \o <<"/", "metadata", ".", "json">>

\* lines 149-150
metadataRequestHeaders(incomingHeaders) ==
  [incomingHeaders EXCEPT !["accept-encoding"] = <<"identity">>]

\* the most rules of a metadata.json
MaxRules == 2

Rules ==
  {[URL |-> <<"/", "**">>, fields |-> << <<<<"Title">>, <<"T1">>>> >>],
   [URL |-> <<"/", "about">>, fields |-> << <<<<"title">>, <<"T2">>>> >>],
   [URL |-> <<"/", "**">>, fields |-> << <<<<"title">>, <<>>>> >>]}

\* what the metadata.json fetch can yield
MetadataOrigins ==
  {[ok |-> FALSE, json |-> FALSE, data |-> <<>>],
   [ok |-> TRUE, json |-> FALSE, data |-> <<>>]} \cup
  {[ok |-> TRUE, json |-> TRUE, data |-> d] : d \in SeqsUpTo(Rules, MaxRules)}

\* what contentResponse.text() can yield
Htmls ==
  {<<"<html><head>">> \o MetaOpen(<<"title">>) \o <<" content=\"", "X", "\">">>
     \o <<"</head>", "<body>", "</body></html>">>,
   <<"plain text">>,
   <<"<head>", "</head>", "<body>", "</head>", "</body>">>}

(***************************************************************************)
(* handleRequest (lines 213-342), one step per await on an upstream fetch  *)
(***************************************************************************)

VARIABLES
  request,          \* the inbound request
  env,              \* the worker's configuration
  pc,               \* where the invocation stands
  url,              \* the URL object of line 215, mutated at lines 298-306
  incoming,         \* the headers of incomingRequest (line 223)
  hostname,         \* line 231
  reviewInfo,       \* line 232
  manifestResponse, \* line 244
  manifest,         \* the parsed manifest (lines 258, 269)
  sitemapResp,      \* what the origin sitemap fetch yielded (lines 115-116)
  contentResponse,  \* line 316
  metadataResponse, \* what the metadata.json fetch yielded (lines 153-154)
  html,             \* the text of contentResponse (line 156)
  fetches,          \* the upstream fetches issued so far, in order
  response          \* the response returned

vars ==
  <<request, env, pc, url, incoming, hostname, reviewInfo, manifestResponse,
    manifest, sitemapResp, contentResponse, metadataResponse, html, fetches,
    response>>

NoResponse ==
  [status |-> 0, body |-> [kind |-> "none"], headers |-> NoResponseHeaders]

NoReviewInfo == [reviewId |-> <<>>, ref |-> <<>>, repo |-> <<>>, owner |-> <<>>]

NoContentResponse == [status |-> 0]

NoManifestResponse == [status |-> 0]

NoSitemapResp == [ok |-> FALSE, locs |-> <<>>]

NoMetadataResponse == [ok |-> FALSE, json |-> FALSE, data |-> <<>>]

\* line 235
manifestUrl(info) ==
  <<"https://">> \o getBaseHostname(info)
     \o <<".", "page", "/", ".", "snapshots", "/">> \o info.reviewId \o ManifestJson

\* manifestRequestHeaders keeping the inbound range and authorization
manifestRequestHeaders_keepInbound(incomingHeaders, info, e) ==
  [incomingHeaders EXCEPT !["accept-encoding"] = <<"identity">>]

\* lines 236-242
manifestRequestHeaders(incomingHeaders, info, e) ==
  LET cleaned == [incomingHeaders EXCEPT !["accept-encoding"] = <<"identity">>,
                                         !["range"] = NoHeader]
  IN  IF EnvHas(e, OrgTokenKey(info))
      THEN [cleaned EXCEPT !["authorization"] =
                             <<"token", " ">> \o EnvString(e, OrgTokenKey(info))]
      ELSE cleaned

\* incomingRequestHeaders keeping the conditional headers
incomingRequestHeaders_keepAll(headers) == headers

\* lines 217-223: the headers of incomingRequest
incomingRequestHeaders(headers) ==
  [headers EXCEPT !["if-none-match"] = NoHeader, !["if-modified-since"] = NoHeader]

\* line 226
isSnapshotRedirect(pathname) ==
  /\ StartsWith(pathname, <<"/", ".", "snapshots", "/">>)
  /\ ~EndsWith(pathname, <<".", "manifest", ".", "json">>)

\* line 257
isSitemapRoute(pathname) ==
  \/ pathname = <<"/", "sitemap", ".", "xml">>
  \/ pathname = <<"/", "sitemap", "-", "origin", ".", "xml">>

\* line 263
isRobotsRoute(pathname) == pathname = <<"/", "robots", ".", "txt">>

\* lines 278-287
unauthorizedResponse ==
  [status  |-> 401,
   body    |-> [kind |-> "text",
                text |-> <<"<html><head><title>Unauthorized</title>",
                           "<script src=\"https://labs.aem.live/tools/snapshot-admin/401.js\"></script>",
                           "</head><body><h1>Unauthorized</h1></body>">>],
   headers |-> [NoResponseHeaders EXCEPT !["content-type"] = <<"text/html">>]]

\* lines 248-253
notFoundResponse == TextResponse(404, <<"Review Not Found">>, TextPlain)

\* lines 330-335
manifestErrorResponse(status) ==
  TextResponse(status, <<"Manifest Error (", ToString(status), ")">>, TextPlain)

\* internalErrorResponse relaying the failure as a bad gateway
internalErrorResponse_badGateway(message) ==
  TextResponse(502, <<"Bad Gateway: ", message>>, TextPlain)

\* lines 337-341
internalErrorResponse(message) ==
  TextResponse(500, <<"Internal Server Error: ", message>>, TextPlain)

\* manifest.resources.map((e) => e.path)
manifestPaths(m) == m.resources

\* normalizedPathname without the .plain.html rule
normalizedPathname_asIs(pathname) == pathname

\* lines 289-292: the pathname the page set is asked about
normalizedPathname(pathname) ==
  IF EndsWith(pathname, <<".", "plain", ".", "html">>)
  THEN Split(pathname, <<".">>)[1]
  ELSE pathname

\* lines 294-295
isPageSnapshot(pathname, pages) == normalizedPathname(pathname) \in Range(pages)

\* contentUrl without the .manifest.json rule of line 302
contentUrl_tierOnly(u, pages, info) ==
  LET snapshot == isPageSnapshot(u.pathname, pages)
      pathname == IF snapshot
                  THEN <<"/", ".", "snapshots", "/">> \o info.reviewId \o u.pathname
                  ELSE u.pathname
      host     == getBaseHostname(info) \o <<".">>
                    \o (IF snapshot THEN <<"page">> ELSE <<"live">>)
  IN  [hostname |-> host, pathname |-> pathname, search |-> u.search]

\* contentUrl appending the normalized pathname to the snapshot prefix
contentUrl_normalizedPath(u, pages, info) ==
  LET snapshot     == isPageSnapshot(u.pathname, pages)
      pathname     == IF snapshot
                      THEN <<"/", ".", "snapshots", "/">> \o info.reviewId
                             \o normalizedPathname(u.pathname)
                      ELSE u.pathname
      baseHostname == getBaseHostname(info)
      host         == IF EndsWith(pathname, <<"/">> \o Tail(ManifestJson))
                      THEN baseHostname \o <<".", "page">>
                      ELSE baseHostname \o <<".">>
                             \o (IF snapshot THEN <<"page">> ELSE <<"live">>)
  IN  [hostname |-> host, pathname |-> pathname, search |-> u.search]

\* lines 297-307: the URL the content is fetched from
contentUrl(u, pages, info) ==
  LET snapshot     == isPageSnapshot(u.pathname, pages)
      pathname     == IF snapshot
                      THEN <<"/", ".", "snapshots", "/">> \o info.reviewId \o u.pathname
                      ELSE u.pathname
      baseHostname == getBaseHostname(info)
      host         == IF EndsWith(pathname, <<"/">> \o Tail(ManifestJson))
                      THEN baseHostname \o <<".", "page">>
                      ELSE baseHostname \o <<".">>
                             \o (IF snapshot THEN <<"page">> ELSE <<"live">>)
  IN  [hostname |-> host, pathname |-> pathname, search |-> u.search]

\* contentRequestHeaders passing x-push-invalidation on
contentRequestHeaders_keepPush(incomingHeaders, info, e, isAuthenticated) ==
  LET host      == incomingHeaders["host"]
      forwarded == [incomingHeaders EXCEPT
                      !["x-forwarded-host"] = IF host = NoHeader THEN <<"null">> ELSE host]
  IN  IF isAuthenticated /\ EnvHas(e, OrgTokenKey(info))
      THEN [forwarded EXCEPT !["authorization"] =
                               <<"token", " ">> \o EnvString(e, OrgTokenKey(info))]
      ELSE forwarded

\* lines 309-314
contentRequestHeaders(incomingHeaders, info, e, isAuthenticated) ==
  LET host      == incomingHeaders["host"]
      forwarded == [incomingHeaders EXCEPT
                      !["x-forwarded-host"] = IF host = NoHeader THEN <<"null">> ELSE host,
                      !["x-push-invalidation"] = NoHeader]
  IN  IF isAuthenticated /\ EnvHas(e, OrgTokenKey(info))
      THEN [forwarded EXCEPT !["authorization"] =
                               <<"token", " ">> \o EnvString(e, OrgTokenKey(info))]
      ELSE forwarded

\* needsMetaRewrite asking the page set alone
needsMetaRewrite_anyPath(pages, pathname) ==
  <<"/", "metadata", ".", "json">> \in Range(pages)

\* line 320
needsMetaRewrite(pages, pathname) ==
  /\ <<"/", "metadata", ".", "json">> \in Range(pages)
  /\ LET segments == Split(pathname, <<"/">>)
     IN  ~Includes(segments[Len(segments)], ".")

\* decoratedResponse naming the inbound URL as the origin
decoratedResponse_requestUrl(body, upstream, u) ==
  [status  |-> upstream.status,
   body    |-> body,
   headers |-> [NoResponseHeaders EXCEPT !["x-origin-url"] = UrlToString(request.url),
                                         !["x-robots-tag"] = <<"noindex,nofollow">>]]

\* lines 324-328: new Response(body, contentResponse) with the two headers set
decoratedResponse(body, upstream, u) ==
  [status  |-> upstream.status,
   body    |-> body,
   headers |-> [NoResponseHeaders EXCEPT !["x-origin-url"] = UrlToString(u),
                                         !["x-robots-tag"] = <<"noindex,nofollow">>]]

\* contentResponse.body handed on unread
streamBody == [kind |-> "stream", of |-> "contentResponse"]

Init ==
  /\ request \in Requests
  /\ env \in Envs
  /\ pc = "start"
  /\ url = request.url
  /\ incoming = request.headers
  /\ hostname = <<>>
  /\ reviewInfo = NoReviewInfo
  /\ manifestResponse = NoManifestResponse
  /\ manifest = NotJson
  /\ sitemapResp = NoSitemapResp
  /\ contentResponse = NoContentResponse
  /\ metadataResponse = NoMetadataResponse
  /\ html = <<>>
  /\ fetches = <<>>
  /\ response = NoResponse

\* lines 215-244: up to the await on the manifest fetch
Start ==
  /\ pc = "start"
  /\ incoming' = incomingRequestHeaders(request.headers)
  /\ IF isSnapshotRedirect(url.pathname)
     THEN /\ response' = createSnapshotRedirect(url.pathname)
          /\ pc' = "done"
          /\ UNCHANGED <<hostname, reviewInfo, fetches>>
     ELSE /\ hostname' = getHostname(url)
          /\ reviewInfo' = extractReviewInfo(hostname')
          /\ fetches' = Append(fetches,
                               [url     |-> manifestUrl(reviewInfo'),
                                headers |-> manifestRequestHeaders(incoming', reviewInfo', env)])
          /\ pc' = "manifest"
          /\ UNCHANGED response
  /\ UNCHANGED <<request, env, url, manifestResponse, manifest, sitemapResp,
                 contentResponse, metadataResponse, html>>

\* the invocation ends with resp
Return(resp) ==
  /\ response' = resp
  /\ pc' = "done"

\* manifestBranch without the status check of line 268
manifestBranch_noStatusCheck(status, pathname) ==
  IF status = 404 THEN "notFound"
  ELSE IF isSitemapRoute(pathname) THEN "sitemap"
  ELSE IF isRobotsRoute(pathname) THEN "robots"
  ELSE "content"

\* manifestBranch with the special routes decided before the 404
manifestBranch_specialFirst(status, pathname) ==
  IF isSitemapRoute(pathname) THEN "sitemap"
  ELSE IF isRobotsRoute(pathname) THEN "robots"
  ELSE IF status = 404 THEN "notFound"
  ELSE IF status = 200 THEN "content"
  ELSE "manifestError"

\* lines 246-336: which branch a settled manifest fetch takes
manifestBranch(status, pathname) ==
  IF status = 404 THEN "notFound"
  ELSE IF isSitemapRoute(pathname) THEN "sitemap"
  ELSE IF isRobotsRoute(pathname) THEN "robots"
  ELSE IF status = 200 THEN "content"
  ELSE "manifestError"

\* lines 258-260 and 108-115: the sitemap route, up to the await on the
\* origin sitemap fetch
SitemapRoute ==
  \E m \in ManifestBodies :
    /\ manifest' = m
    /\ IF ~m.json
       THEN /\ Return(internalErrorResponse("Unexpected token"))
            /\ UNCHANGED <<url, fetches>>
       ELSE /\ fetches' = Append(fetches,
                                 [url     |-> sitemapUrl(reviewInfo),
                                  headers |-> sitemapRequestHeaders(incoming)])
            /\ pc' = "sitemap"
            /\ UNCHANGED <<url, response>>

\* lines 267-316: the content route, up to the await on the content fetch
ContentRoute ==
  \E m \in ManifestBodies :
    /\ manifest' = m
    /\ IF ~m.json
       THEN /\ Return(internalErrorResponse("Unexpected token"))
            /\ UNCHANGED <<url, fetches>>
       ELSE LET isAuthenticated ==
                  checkAuthentication(m.metadata, request, reviewInfo, env)
                routed == contentUrl(url, manifestPaths(m), reviewInfo)
            IN  IF ~isAuthenticated
                THEN /\ Return(unauthorizedResponse)
                     /\ UNCHANGED <<url, fetches>>
                ELSE /\ url' = routed
                     /\ fetches' =
                          Append(fetches,
                                 [url     |-> UrlToString(routed),
                                  headers |-> contentRequestHeaders(
                                                incoming, reviewInfo, env,
                                                isAuthenticated)])
                     /\ pc' = "content"
                     /\ UNCHANGED response

\* lines 244-336: the manifest fetch has settled
ManifestReturns ==
  /\ pc = "manifest"
  /\ \E ok \in BOOLEAN :
       IF ~ok
       THEN /\ Return(internalErrorResponse("fetch failed"))
            /\ UNCHANGED <<url, manifestResponse, manifest, fetches>>
       ELSE \E status \in ManifestStatuses :
         /\ manifestResponse' = [status |-> status]
         /\ LET branch == manifestBranch(status, url.pathname)
            IN  CASE branch = "notFound" ->
                       /\ Return(notFoundResponse)
                       /\ UNCHANGED <<url, manifest, fetches>>
                  [] branch = "sitemap" -> SitemapRoute
                  [] branch = "robots" ->
                       /\ Return(generateRobotsTxt(hostname))
                       /\ UNCHANGED <<url, manifest, fetches>>
                  [] branch = "content" -> ContentRoute
                  [] OTHER ->
                       /\ Return(manifestErrorResponse(status))
                       /\ UNCHANGED <<url, manifest, fetches>>
  /\ UNCHANGED <<request, env, incoming, hostname, reviewInfo, sitemapResp,
                 contentResponse, metadataResponse, html>>

\* lines 115-136: the origin sitemap fetch has settled
SitemapReturns ==
  /\ pc = "sitemap"
  /\ \E origin \in SitemapOrigins :
       /\ sitemapResp' = origin
       /\ Return(generateSitemap(hostname, manifestPaths(manifest), origin))
  /\ UNCHANGED <<request, env, url, incoming, hostname, reviewInfo,
                 manifestResponse, manifest, contentResponse, metadataResponse,
                 html, fetches>>

\* lines 316-328 and 146-153: the content fetch has settled
ContentReturns ==
  /\ pc = "content"
  /\ \E ok \in BOOLEAN :
       IF ~ok
       THEN /\ Return(internalErrorResponse("fetch failed"))
            /\ UNCHANGED <<contentResponse, fetches>>
       ELSE \E status \in ContentStatuses :
         /\ contentResponse' = [status |-> status]
         /\ IF needsMetaRewrite(manifestPaths(manifest), url.pathname) /\ status = 200
            THEN /\ fetches' = Append(fetches,
                                      [url     |-> metadataUrl(reviewInfo),
                                       headers |-> metadataRequestHeaders(incoming)])
                 /\ pc' = "metadata"
                 /\ UNCHANGED response
            ELSE /\ Return(decoratedResponse(streamBody, contentResponse', url))
                 /\ UNCHANGED fetches
  /\ UNCHANGED <<request, env, url, incoming, hostname, reviewInfo,
                 manifestResponse, manifest, sitemapResp, metadataResponse, html>>

\* lines 153-176 and 324-328: the metadata.json fetch has settled
MetadataReturns ==
  /\ pc = "metadata"
  /\ \E origin \in MetadataOrigins :
       /\ metadataResponse' = origin
       /\ IF ~origin.ok
          THEN /\ Return(internalErrorResponse("fetch failed"))
               /\ UNCHANGED html
          ELSE IF ~origin.json
          THEN /\ Return(internalErrorResponse("Unexpected token"))
               /\ UNCHANGED html
          ELSE \E text \in Htmls :
                 /\ html' = text
                 /\ Return(decoratedResponse(
                             [kind |-> "html",
                              html |-> rewriteMetaTags(text, origin.data, url.pathname)],
                             contentResponse, url))
  /\ UNCHANGED <<request, env, url, incoming, hostname, reviewInfo,
                 manifestResponse, manifest, sitemapResp, contentResponse, fetches>>

Next ==
  \/ Start
  \/ ManifestReturns
  \/ SitemapReturns
  \/ ContentReturns
  \/ MetadataReturns

Spec == Init /\ [][Next]_vars

(***************************************************************************)
(* The claims                                                              *)
(***************************************************************************)

ReqPath == request.url.pathname

\* the pathname is answered by the snapshot redirect
IsRedirectPath ==
  /\ StartsWith(ReqPath, <<"/", ".", "snapshots", "/">>)
  /\ ~EndsWith(ReqPath, <<".", "manifest", ".", "json">>)

IsSitemapPath ==
  ReqPath \in {<<"/", "sitemap", ".", "xml">>,
               <<"/", "sitemap", "-", "origin", ".", "xml">>}

IsRobotsPath == ReqPath = <<"/", "robots", ".", "txt">>

\* a content request: no snapshot redirect and no special route
IsContentPath == ~IsRedirectPath /\ ~IsSitemapPath /\ ~IsRobotsPath

\* the manifest fetch returned 200 and its JSON was read
ManifestRead == manifestResponse.status = 200 /\ manifest.json

Protected == ManifestRead /\ manifest.metadata.reviewPassword # ""

Open == ManifestRead /\ manifest.metadata.reviewPassword = ""

\* a token is configured for the owner and the authorization header is
\* 'token ' followed by it
TokenHeaderValid ==
  \E kv \in env :
    /\ kv[1] = reviewInfo.owner \o <<"-", "org", "-", "token">>
    /\ request.headers["authorization"] = <<"token", " ">> \o kv[2]

\* the reviewPassword cookie is the digest of the manifest's password
CookieValid ==
  request.headers["cookie"]
    = <<"reviewPassword", "=">> \o Sha256Hex(manifest.metadata.reviewPassword)

UnauthorizedBody ==
  [kind |-> "text",
   text |-> <<"<html><head><title>Unauthorized</title>",
              "<script src=\"https://labs.aem.live/tools/snapshot-admin/401.js\"></script>",
              "</head><body><h1>Unauthorized</h1></body>">>]

\* C1: a content request to a Protected review that carries neither the
\* configured owner token nor the digest cookie is answered 401 with the
\* Unauthorized body, and the manifest fetch is its only upstream fetch.
C1_ProtectedNeedsCredentials ==
  (Protected /\ IsContentPath /\ ~TokenHeaderValid /\ ~CookieValid)
    => /\ Len(fetches) = 1
       /\ pc = "done"
       /\ response.status = 401
       /\ response.body = UnauthorizedBody

\* C4: a manifest fetch answered 404 ends the invocation, on every route but
\* the snapshot redirect, with 404 'Review Not Found' and no further fetch.
C4_ManifestNotFound ==
  (manifestResponse.status = 404 /\ ~IsRedirectPath)
    => /\ pc = "done"
       /\ response.status = 404
       /\ response.body = [kind |-> "text", text |-> <<"Review Not Found">>]
       /\ Len(fetches) = 1

C4_Witness ==
  /\ manifestResponse.status = 404
  /\ IsRobotsPath
  /\ pc = "done"
  /\ response.status = 404

\* the pathname is '/.snapshots/{segment}' followed by rest, and location is
\* rest, or '/' when rest is empty
StripsSnapshotPrefix(pathname, location) ==
  LET after == SubSeq(pathname, 5, Len(pathname))
  IN  \E n \in 0..Len(after) :
        /\ \A i \in 1..n : after[i] # "/"
        /\ n = Len(after) \/ after[n + 1] = "/"
        /\ location = IF n = Len(after) THEN <<"/">>
                      ELSE SubSeq(after, n + 1, Len(after))

\* C6: a pathname under '/.snapshots/' not ending in '.manifest.json' is
\* answered 302 'Redirect' with the location stripped of '/.snapshots/{segment}'
\* and without the query string, and no upstream fetch is ever issued.
C6_SnapshotRedirect ==
  IsRedirectPath
    => /\ fetches = <<>>
       /\ pc \in {"start", "done"}
       /\ pc = "done"
            => /\ response.status = 302
               /\ response.body = [kind |-> "text", text |-> <<"Redirect">>]
               /\ StripsSnapshotPrefix(ReqPath, response.headers["location"])
               /\ ~Includes(response.headers["location"], "?")

C6_Witness ==
  /\ pc = "done"
  /\ ReqPath = <<"/", ".", "snapshots", "/", "r1", "/", "page", ".", "html">>
  /\ request.url.search # <<>>
  /\ request.headers["authorization"] # NoHeader
  /\ response.headers["location"] = <<"/", "page", ".", "html">>

\* the content fetch has been issued (it is the second upstream fetch)
ContentFetched == IsContentPath /\ Len(fetches) >= 2

BaseOf(info) ==
  info.ref \o <<"-", "-">> \o info.repo \o <<"-", "-">> \o info.owner \o <<".", "aem">>

PageTierUrl ==
  <<"https://">> \o BaseOf(reviewInfo) \o <<".", "page">>
     \o <<"/", ".", "snapshots", "/">> \o reviewInfo.reviewId \o ReqPath
     \o request.url.search

LiveTierUrl ==
  <<"https://">> \o BaseOf(reviewInfo) \o <<".", "live">> \o ReqPath
     \o request.url.search

\* the pathname, cut before its first '.' when it ends with '.plain.html'
NormalizedReqPath ==
  IF EndsWith(ReqPath, <<".", "plain", ".", "html">>)
  THEN LET k == CHOOSE i \in 1..Len(ReqPath) :
                  /\ ReqPath[i] = "."
                  /\ \A j \in 1..(i - 1) : ReqPath[j] # "."
       IN  SubSeq(ReqPath, 1, k - 1)
  ELSE ReqPath

ManifestErrorBody(status) ==
  [kind |-> "text", text |-> <<"Manifest Error (", ToString(status), ")">>]

\* the manifest fetch returned a status other than 200 and 404
ManifestFailed == manifestResponse.status \notin {0, 200, 404}

\* C5 as stated: every route but the snapshot redirect ends with the
\* manifest's status and 'Manifest Error ({status})'.
C5_Original ==
  (ManifestFailed /\ ~IsRedirectPath)
    => /\ pc = "done"
       /\ response.status = manifestResponse.status
       /\ response.body = ManifestErrorBody(manifestResponse.status)
       /\ Len(fetches) = 1

\* C5, amended: every content request ends so.
C5_ManifestError ==
  (ManifestFailed /\ IsContentPath)
    => /\ pc = "done"
       /\ response.status = manifestResponse.status
       /\ response.body = ManifestErrorBody(manifestResponse.status)
       /\ Len(fetches) = 1

C5_Witness ==
  /\ manifestResponse.status = 500
  /\ ReqPath = <<"/", "about">>
  /\ pc = "done"
  /\ response.body = [kind |-> "text", text |-> <<"Manifest Error (", "500", ")">>]

\* C7: a pathname ending with '/.manifest.json' is never answered 302, and
\* its content fetch goes to the .aem.page host.
C7_ManifestJsonFromPage ==
  EndsWith(ReqPath, <<"/", ".", "manifest", ".", "json">>)
    => /\ response.status # 302
       /\ Len(fetches) >= 2
            => StartsWith(fetches[2].url,
                          <<"https://">> \o BaseOf(reviewInfo) \o <<".", "page", "/">>)

C7_Witness ==
  /\ ReqPath = <<"/", ".", "manifest", ".", "json">>
  /\ Len(fetches) >= 2
  /\ ReqPath \notin Range(manifest.resources)
  /\ pc = "done"
  /\ response.status = 200

\* https://{ref}--{repo}--{owner}.aem.page/.snapshots/{id}/.manifest.json
ManifestUrlOf(id, ref, repo, owner) ==
  <<"https://">> \o ref \o <<"-", "-">> \o repo \o <<"-", "-">> \o owner
     \o <<".", "aem", ".", "page", "/", ".", "snapshots", "/">> \o id
     \o <<"/", ".", "manifest", ".", "json">>

\* the manifest of the hostname's quadruple is the first fetch of every
\* request to a hostname {id}--{ref}--{repo}--{owner}.{label}.reviews with
\* label among labels
RoundTrips(labels) ==
  \A id \in Ids, ref \in Refs, repo \in Repos, owner \in Owners, label \in labels :
    (/\ request.url.hostname = ReviewHost(id, ref, repo, owner, label)
     /\ ~IsRedirectPath
     /\ pc # "start")
      => /\ Len(fetches) >= 1
         /\ fetches[1].url = ManifestUrlOf(id, ref, repo, owner)

OnReviewsDomain ==
  \/ EndsWith(request.url.hostname, <<".", "hlx", ".", "reviews">>)
  \/ EndsWith(request.url.hostname, <<".", "aem", ".", "reviews">>)

\* the value of the 'hostname' query parameter, empty when absent
HostnameParam ==
  IF StartsWith(request.url.search, <<"?", "hostname", "=">>)
  THEN SubSeq(request.url.search, 4, Len(request.url.search))
  ELSE <<>>

\* the hostname has been resolved (line 231 has run)
Resolved == pc # "start" /\ ~IsRedirectPath

\* the second half of C9: off a reviews domain the parameter, else the default
ResolvesParamOrDefault ==
  (Resolved /\ ~OnReviewsDomain)
    => hostname = IF HostnameParam # <<>> THEN HostnameParam
                  ELSE <<"default", "-", "-", "main", "-", "-", "aem", "-",
                         "boilerplate", "-", "-", "adobe", ".", "aem", ".", "reviews">>

\* every upstream URL is on a host of the request hostname's own
\* {ref}--{repo}--{owner}
UpstreamHostsFromUrlHostname ==
  \A id \in Ids, ref \in Refs, repo \in Repos, owner \in Owners, label \in Labels :
    request.url.hostname = ReviewHost(id, ref, repo, owner, label)
      => \A i \in 1..Len(fetches) :
           StartsWith(fetches[i].url,
                      <<"https://">> \o ref \o <<"-", "-">> \o repo \o <<"-", "-">>
                         \o owner \o <<".", "aem", ".">>)

\* C9 as stated: on a reviews domain the resolved hostname is the URL's and
\* the 'hostname' parameter shows in no upstream URL and in no response
\* header; elsewhere the parameter, or the default, is the resolved hostname.
C9_Original ==
  /\ (Resolved /\ OnReviewsDomain)
       => /\ hostname = request.url.hostname
          /\ UpstreamHostsFromUrlHostname
          /\ \A i \in 1..Len(fetches) : ~Includes(fetches[i].url, "hostname")
          /\ ~Includes(response.headers["x-origin-url"], "hostname")
  /\ ResolvesParamOrDefault

\* C9, amended: on a reviews domain the resolved hostname is the URL's and
\* the parameter changes no upstream host and no path: the only upstream URL
\* with a query string is the content URL, which ends with the request's own
\* query string, as does x-origin-url.
C9_HostnameResolution ==
  /\ (Resolved /\ OnReviewsDomain)
       => /\ hostname = request.url.hostname
          /\ UpstreamHostsFromUrlHostname
          /\ \A i \in 1..Len(fetches) :
               IF ContentFetched /\ i = 2
               THEN /\ EndsWith(fetches[i].url, request.url.search)
                    /\ ~Includes(SubSeq(fetches[i].url, 1,
                                        Len(fetches[i].url) - Len(request.url.search)),
                                 "?")
               ELSE ~Includes(fetches[i].url, "?")
          /\ response.headers["x-origin-url"] # NoHeader
               => response.headers["x-origin-url"] = fetches[2].url
  /\ ResolvesParamOrDefault

C9_Witness ==
  /\ OnReviewsDomain
  /\ HostnameParam = ParamHost
  /\ request.url.hostname # ParamHost
  /\ ContentFetched
  /\ pc = "done"
  /\ response.status = 200
  /\ hostname = request.url.hostname

\* the paths of the origin sitemap's <loc> values, none when the fetch or
\* the parsing of a value failed
LocPaths ==
  IF sitemapResp.ok /\ \A i \in 1..Len(sitemapResp.locs) : UrlValid(sitemapResp.locs[i])
  THEN {UrlPathname(sitemapResp.locs[i]) : i \in 1..Len(sitemapResp.locs)}
  ELSE {}

\* the sitemap route has answered from a manifest it could read
SitemapServed == IsSitemapPath /\ pc = "done" /\ manifest.json

\* C10: the sitemap is a 200 listing, each exactly once, the manifest's
\* paths and the origin sitemap's paths under https://{resolved hostname};
\* when the origin sitemap fails, the manifest's paths alone.
C10_SitemapUnion ==
  SitemapServed
    => /\ response.status = 200
       /\ response.body.kind = "sitemap"
       /\ LET urls == response.body.urls
          IN  /\ \A i, j \in 1..Len(urls) : urls[i] = urls[j] => i = j
              /\ Range(urls) =
                   {<<"https://">> \o hostname \o path :
                      path \in Range(manifest.resources) \cup LocPaths}

C10_Witness ==
  /\ SitemapServed
  /\ manifest.resources = << <<"/", "about">>, <<"/", "about">> >>
  /\ sitemapResp.ok
  /\ sitemapResp.locs = << <<"https://", "example", ".", "com", "/", "about">>,
                           <<"https://", "example", ".", "com">> >>
  /\ Len(response.body.urls) = 2

\* the robots text whose Sitemap line names host's sitemap
RobotsBody(host) ==
  [kind |-> "text",
   text |-> <<"User-agent: *\nAllow: /\n\nSitemap: ", "https://">>
              \o host \o <<"/", "sitemap", ".", "xml">>]

\* the hostname the rules of getHostname resolve the request to
ResolvedHostname ==
  IF OnReviewsDomain THEN request.url.hostname
  ELSE IF HostnameParam # <<>> THEN HostnameParam
  ELSE <<"default", "-", "-", "main", "-", "-", "aem", "-",
         "boilerplate", "-", "-", "adobe", ".", "aem", ".", "reviews">>

\* a request for /robots.txt has been answered
RobotsAnswered == IsRobotsPath /\ pc = "done"

\* the manifest fetch failed: no manifest response was ever received
ManifestFetchFailed == pc = "done" /\ ~IsRedirectPath /\ manifestResponse.status = 0

MetaRewritten == pc = "done" /\ response.body.kind = "html"

\* the part of a document before its first '</head>'
BeforeHead(doc) == SubSeq(doc, 1, IndexOf(doc, <<"</head>">>, 1) - 1)

\* the part of a document after its first '</head>'
AfterHead(doc) == SubSeq(doc, IndexOf(doc, <<"</head>">>, 1) + 1, Len(doc))

\* C12: when the MetaRewriter runs on a document with a head, the head is
\* rewritten rule by rule and field by field (first '<meta name="{name}"'
\* renamed to '{name}-rewritten', a new tag appended at the end of the head)
\* and the part of the document after '</head>' is left unchanged.
C12_RewriteKeepsRest ==
  (MetaRewritten /\ IndexOf(html, <<"</head>">>, 1) # 0)
    => response.body.html
         = ApplyRules(metadataResponse.data, BeforeHead(html), url.pathname)
             \o <<"</head>">> \o AfterHead(html)

\* the manifest body was parsed and was not JSON (lines 258 and 269)
ManifestParseFailed ==
  /\ pc = "done"
  /\ manifestResponse.status \notin {0, 404}
  /\ IsSitemapPath \/ (IsContentPath /\ manifestResponse.status = 200)
  /\ ~manifest.json

\* the content fetch was issued and failed
ContentFetchFailed == pc = "done" /\ ContentFetched /\ contentResponse.status = 0

\* the metadata.json fetch was issued and it, or the parsing of its body, failed
MetadataFailed ==
  pc = "done" /\ Len(fetches) = 3 /\ ~(metadataResponse.ok /\ metadataResponse.json)

PipelineFailed ==
  ManifestFetchFailed \/ ManifestParseFailed \/ ContentFetchFailed \/ MetadataFailed

\* a failure of the pipeline is answered 500 'Internal Server Error: {message}'
FailureAnswered500 ==
  PipelineFailed
    => /\ response.status = 500
       /\ response.body.kind = "text"
       /\ Len(response.body.text) = 2
       /\ response.body.text[1] = "Internal Server Error: "

\* a response exists exactly when the invocation has ended
OneResponse == (pc = "done") <=> (response.status # 0)

\* how far along handleRequest an invocation is
PcRank(p) ==
  CASE p = "start"    -> 0
    [] p = "manifest" -> 1
    [] p = "sitemap"  -> 2
    [] p = "content"  -> 2
    [] p = "metadata" -> 3
    [] p = "done"     -> 4

\* an invocation that has not answered can take its next step
NeverStuck == pc = "done" \/ ENABLED Next

ContentAnswered ==
  pc = "done" /\ ContentFetched /\ contentResponse.status # 0 /\ ~MetadataFailed

\* the response returned is built from the upstream content response: its
\* body is the upstream body, streamed on or rewritten
BuiltFromContent == pc = "done" /\ response.body.kind \in {"stream", "html"}

\* C14: every response built from an upstream content fetch, whatever the
\* upstream status and rewritten or not, carries x-robots-tag:
\* noindex,nofollow and an x-origin-url equal to the URL fetched upstream.
C14_ContentResponseHeaders ==
  /\ ContentAnswered <=> BuiltFromContent
  /\ BuiltFromContent
       => /\ response.status = contentResponse.status
          /\ response.headers["x-robots-tag"] = <<"noindex,nofollow">>
          /\ response.headers["x-origin-url"] = fetches[2].url

C14_Witness ==
  /\ BuiltFromContent
  /\ response.body.kind = "html"
  /\ fetches[2].url # UrlToString(request.url)
  /\ response.headers["x-origin-url"] = fetches[2].url
  /\ response.headers["x-robots-tag"] = <<"noindex,nofollow">>

C14_WitnessUpstreamError ==
  /\ BuiltFromContent
  /\ response.status = 404
  /\ response.headers["x-origin-url"] = fetches[2].url

\* C15: no upstream fetch (manifest, content, metadata, origin sitemap)
\* carries an if-none-match or if-modified-since header, whatever the
\* inbound request carried.
C15_NoConditionalUpstream ==
  \A i \in 1..Len(fetches) :
    /\ fetches[i].headers["if-none-match"] = NoHeader
    /\ fetches[i].headers["if-modified-since"] = NoHeader

C15_Witness ==
  /\ request.headers["if-none-match"] # NoHeader
  /\ request.headers["if-modified-since"] # NoHeader
  /\ Len(fetches) = 3
  /\ pc = "done"
  /\ response.body.kind = "html"

C15_WitnessSitemap ==
  /\ request.headers["if-none-match"] # NoHeader
  /\ IsSitemapPath
  /\ Len(fetches) = 2

\* the manifest fetch has been issued
ManifestFetched == Len(fetches) >= 1

\* C16: every manifest fetch is issued with accept-encoding: identity and
\* without a range header, and, when a token is configured under
\* '{owner}-org-token', with authorization: token {token} whatever the
\* inbound authorization was.
C16_ManifestRequestHeaders ==
  ManifestFetched
    => /\ fetches[1].headers["accept-encoding"] = <<"identity">>
       /\ fetches[1].headers["range"] = NoHeader
       /\ \A kv \in env :
            kv[1] = reviewInfo.owner \o <<"-", "org", "-", "token">>
              => fetches[1].headers["authorization"] = <<"token", " ">> \o kv[2]

C16_Witness ==
  /\ ManifestFetched
  /\ request.headers["range"] # NoHeader
  /\ request.headers["accept-encoding"] = <<"gzip">>
  /\ request.headers["authorization"] = <<"token", " ", "undefined">>
  /\ reviewInfo.owner = <<"own">>
  /\ fetches[1].headers["authorization"] = <<"token", " ", "tok1">>

\* C17: every upstream content fetch carries no x-push-invalidation header,
\* carries x-forwarded-host equal to the inbound host header and, when a
\* token is configured for the owner, authorization: token {token}; it is
\* issued only after the AuthGate has returned authenticated.
C17_ContentRequestHeaders ==
  ContentFetched
    => /\ fetches[2].headers["x-push-invalidation"] = NoHeader
       /\ fetches[2].headers["x-forwarded-host"] = request.headers["host"]
       /\ \A kv \in env :
            kv[1] = reviewInfo.owner \o <<"-", "org", "-", "token">>
              => fetches[2].headers["authorization"] = <<"token", " ">> \o kv[2]
       /\ ManifestRead
       /\ checkAuthentication(manifest.metadata, request, reviewInfo, env)

C17_Witness ==
  /\ ContentFetched
  /\ Protected
  /\ CookieValid
  /\ request.headers["authorization"] = NoHeader
  /\ request.headers["x-push-invalidation"] # NoHeader
  /\ fetches[2].headers["authorization"] = <<"token", " ", "tok1">>

\* the manifest read names a review password, whatever the manifest status
ProtectedReview == manifest.json /\ manifest.metadata.reviewPassword # ""

\* the caller holds neither the configured owner token nor the digest cookie
NoValidCredentials == ~TokenHeaderValid /\ ~CookieValid

\* the response lists a path of the manifest's resource list
ListsManifestPath ==
  /\ response.body.kind = "sitemap"
  /\ \E p \in Range(manifest.resources) :
       <<"https://">> \o hostname \o p \in Range(response.body.urls)

\* the response was routed by the manifest's resource list: its content was
\* fetched from the page tier because the list names the normalized pathname
RoutedByManifestPath ==
  /\ ContentFetched
  /\ NormalizedReqPath \in Range(manifest.resources)

\* C18: on a Protected review the response to a caller without valid
\* credentials does not depend on the manifest's resource list: on no
\* route, the sitemaps included, does it list a path taken from the
\* manifest or follow from the list.
C18_NoResourceLeak ==
  (pc = "done" /\ ProtectedReview /\ NoValidCredentials)
    => ~ListsManifestPath /\ ~RoutedByManifestPath

\* a snapshot redirect has been answered
Redirected == IsRedirectPath /\ pc = "done"

\* C19: the location of every snapshot redirect is a same-origin absolute
\* path: it begins with exactly one '/', never with '//'.
C19_SameOriginLocation ==
  Redirected
    => LET location == response.headers["location"]
       IN  /\ Len(location) >= 1
           /\ location[1] = "/"
           /\ Len(location) >= 2 => location[2] # "/"

\* the path of an upstream URL: from the first '/' after the host
UrlPath(u) == SubSeq(u, IndexOf(u, <<"/">>, 1), Len(u))

\* the upstream URL lies under /.snapshots/
UnderSnapshots(u) == StartsWith(UrlPath(u), <<"/", ".", "snapshots", "/">>)

\* the upstream URL lies under /.snapshots/{id}/
UnderSnapshotOf(u, id) ==
  StartsWith(UrlPath(u), <<"/", ".", "snapshots", "/">> \o id \o <<"/">>)

\* C20: every upstream fetch under /.snapshots/ is under the reviewId decoded
\* from the resolved hostname: no request made through one review's hostname
\* fetches another review's manifest or snapshot content.
C20_OwnReviewOnly ==
  \A i \in 1..Len(fetches) :
    UnderSnapshots(fetches[i].url)
      => UnderSnapshotOf(fetches[i].url, reviewInfo.reviewId)

\* the content request is classified page-tier: the normalized pathname is
\* in the page set
PageTier == NormalizedReqPath \in Range(manifest.resources)

\* C21: classification uses the normalized pathname (a pathname ending in
\* '.plain.html' cut before its first '.', any other pathname unchanged)
\* while the outbound path keeps the original one: page-tier requests are
\* fetched under /.snapshots/{reviewId} followed by the original pathname,
\* the others under the original pathname.
C21_NormalizedClassification ==
  ContentFetched
    => /\ UrlPath(fetches[2].url)
            = (IF PageTier
               THEN <<"/", ".", "snapshots", "/">> \o reviewInfo.reviewId \o ReqPath
               ELSE ReqPath) \o request.url.search
       /\ PageTier
            => StartsWith(fetches[2].url,
                          <<"https://">> \o BaseOf(reviewInfo) \o <<".", "page", "/">>)
       /\ ~EndsWith(ReqPath, <<".", "plain", ".", "html">>)
            => (PageTier <=> ReqPath \in Range(manifest.resources))

C21_Witness ==
  /\ ContentFetched
  /\ pc = "done"
  /\ ReqPath = <<"/", "about", ".", "plain", ".", "html">>
  /\ PageTier
  /\ ReqPath \notin Range(manifest.resources)
  /\ UrlPath(fetches[2].url)
       = <<"/", ".", "snapshots", "/", "r1", "/", "about", ".", "plain", ".", "html">>

\* the metadata.json fetch has been issued (it is the third upstream fetch)
MetadataFetched == Len(fetches) = 3

\* the content fetch has returned a response
ContentReturned == ContentFetched /\ contentResponse.status # 0

\* the routed pathname: the path of the content URL without the query string
RoutedPath ==
  SubSeq(UrlPath(fetches[2].url), 1,
         Len(UrlPath(fetches[2].url)) - Len(request.url.search))

\* no '.' follows the last '/' of the path
LastSegmentHasNoDot(path) ==
  \A i \in 1..Len(path) :
    path[i] = "." => \E j \in (i + 1)..Len(path) : path[j] = "/"

\* the three conditions of the MetaRewriter
RewriteConditions ==
  /\ <<"/", "metadata", ".", "json">> \in Range(manifest.resources)
  /\ LastSegmentHasNoDot(RoutedPath)
  /\ contentResponse.status = 200

C22_WitnessUnmodified ==
  /\ ContentReturned
  /\ pc = "done"
  /\ <<"/", "metadata", ".", "json">> \in Range(manifest.resources)
  /\ ReqPath = <<"/", "styles", ".", "css">>
  /\ contentResponse.status = 200
  /\ response.body.kind = "stream"

\* no rule of metadata.json acts on the pathname: each one either does not
\* match it or has only empty fields
NoRuleActs ==
  \A i \in 1..Len(metadataResponse.data) :
    LET rule == metadataResponse.data[i]
    IN  RegexTest(rule.URL, url.pathname)
          => \A k \in 1..Len(rule.fields) : rule.fields[k][2] = <<>>

\* C23: when the MetaRewriter runs on a status-200 response and no rule acts
\* on the pathname, the body returned is the upstream body, whether it has
\* one '</head>', none or several.
C23_NoRuleIsIdentity ==
  (MetaRewritten /\ NoRuleActs) => response.body.html = html

\* the field names the rules of the model set, lowercased
FieldNames == {<<"title">>}

\* the positions at which needle occurs in s
Occurrences(s, needle) ==
  {i \in 1..Len(s) : /\ i + Len(needle) - 1 <= Len(s)
                     /\ SubSeq(s, i, i + Len(needle) - 1) = needle}

\* the values the matching rules give the field, in array order
ActingValues(name) ==
  LET data == metadataResponse.data
      sets(i, k) ==
        /\ RegexTest(data[i].URL, url.pathname)
        /\ ToLowerCase(data[i].fields[k][1]) = name
        /\ data[i].fields[k][2] # <<>>
      acting == {i \in 1..Len(data) : \E k \in 1..Len(data[i].fields) : sets(i, k)}
      nth(j) == CHOOSE i \in acting : Cardinality({x \in acting : x < i}) = j - 1
  IN  [j \in 1..Cardinality(acting) |->
         LET k == CHOOSE k \in 1..Len(data[nth(j)].fields) : sets(nth(j), k)
         IN  data[nth(j)].fields[k][2]]

\* the head of the document fetched and the head of the document returned
OriginalHead == Split(html, <<"</head>">>)[1]
ResultHead == BeforeHead(response.body.html)

\* the un-suffixed tag of the field, with the value given
TagWith(name, value) ==
  <<"<meta name=\"">> \o name \o <<"\"", " content=\"">> \o value \o <<"\">">>

\* C24: rules apply in array order and the last matching rule wins per
\* field: when matching rules set a field of which the original head has at
\* most one tag, the resulting head has exactly one un-suffixed tag of that
\* name, with the last rule's value, and the original tag and the tags of
\* the earlier rules carry the '-rewritten' suffix.
C24_LastRuleWins ==
  MetaRewritten
    => \A name \in FieldNames :
         LET values   == ActingValues(name)
             original == Cardinality(Occurrences(OriginalHead, MetaOpen(name)))
         IN  (Len(values) >= 1 /\ original <= 1)
               => /\ Cardinality(Occurrences(ResultHead, MetaOpen(name))) = 1
                  /\ Occurrences(ResultHead, TagWith(name, values[Len(values)])) # {}
                  /\ Cardinality(Occurrences(ResultHead,
                                             MetaOpen(name \o <<"-", "rewritten">>)))
                       = original + Len(values) - 1
                  /\ \A j \in 1..(Len(values) - 1) :
                       Occurrences(ResultHead,
                                   <<"<meta name=\"">> \o name
                                     \o <<"-", "rewritten", "\"", " content=\"">>
                                     \o values[j] \o <<"\">">>) # {}

C24_Witness ==
  /\ MetaRewritten
  /\ ActingValues(<<"title">>) = << <<"T1">>, <<"T2">> >>
  /\ Cardinality(Occurrences(OriginalHead, MetaOpen(<<"title">>))) = 1
  /\ Occurrences(ResultHead, TagWith(<<"title">>, <<"T2">>)) # {}
  /\ Cardinality(Occurrences(ResultHead, MetaOpen(<<"title", "-", "rewritten">>))) = 2

CallsByPosition ==
  CASE pc = "start"    -> Len(fetches) = 0
    [] pc = "manifest" -> Len(fetches) = 1
    [] pc = "sitemap"  -> Len(fetches) = 2
    [] pc = "content"  -> Len(fetches) = 2
    [] pc = "metadata" -> Len(fetches) = 3
    [] pc = "done"     -> Len(fetches) <= 3

\* the manifest fetch is the first call, a second call follows only a
\* manifest response and a third only a content response
EachAfterThePrevious ==
  /\ Len(fetches) >= 1
       => fetches[1].url
            = <<"https://">> \o BaseOf(reviewInfo) \o <<".", "page">>
                \o <<"/", ".", "snapshots", "/">> \o reviewInfo.reviewId
                \o <<"/", ".", "manifest", ".", "json">>
  /\ Len(fetches) >= 2 => manifestResponse.status # 0
  /\ Len(fetches) >= 3 => contentResponse.status # 0

\* a step issues at most one call, after the outstanding one has settled,
\* and never changes a call already issued
OneCallAtATime ==
  /\ Len(fetches') <= Len(fetches) + 1
  /\ SubSeq(fetches', 1, Len(fetches)) = fetches
  /\ Len(fetches') = Len(fetches) + 1 => pc' \in {"manifest", "sitemap", "content", "metadata"}

\* the request asks for the review's own manifest, so that the content fetch
\* addresses the URL of the manifest fetch
AsksOwnManifest ==
  /\ ContentFetched
  /\ request.url.search = <<>>
  /\ \/ ReqPath = <<"/", ".", "snapshots", "/">> \o reviewInfo.reviewId
                    \o <<"/", ".", "manifest", ".", "json">>
     \/ /\ ReqPath = <<"/", ".", "manifest", ".", "json">>
        /\ ReqPath \in Range(manifest.resources)

\* C26 as stated: calls are sequential, the manifest fetch comes first, no
\* upstream URL is requested more than once and there are at most three calls.
C26_Original ==
  /\ CallsByPosition
  /\ EachAfterThePrevious
  /\ \A i, j \in 1..Len(fetches) : fetches[i].url = fetches[j].url => i = j

\* C26, amended: calls are sequential, the manifest fetch comes first, there
\* are at most three calls and none is repeated, except that the content
\* fetch of a request for the review's own manifest addresses the manifest
\* URL a second time.
C26_SequentialCalls ==
  /\ [](/\ CallsByPosition
        /\ EachAfterThePrevious
        /\ \A i, j \in 1..Len(fetches) :
             (fetches[i].url = fetches[j].url /\ i < j)
               => (i = 1 /\ j = 2 /\ AsksOwnManifest))
  /\ [][OneCallAtATime]_vars

C26_Witness ==
  /\ pc = "done"
  /\ AsksOwnManifest
  /\ Len(fetches) = 2
  /\ fetches[1].url = fetches[2].url
  /\ response.status = 200

C26_WitnessThreeCalls ==
  /\ pc = "done"
  /\ Len(fetches) = 3
  /\ \A i, j \in 1..3 : fetches[i].url = fetches[j].url => i = j

====
